---- MODULE Spec2Model ----
(***************************************************************************)
(* A model of the hush syntactic front end: the recursive-descent parser   *)
(* of src/syntax/parser/mod.rs, working on the token stream of the lexer.  *)
(*                                                                         *)
(* The parser state is the pair (token, cursor) of the Parser struct: the  *)
(* current-token slot, an Option modelled as a sequence of length 0 or 1,  *)
(* and the tokens the cursor has not produced yet.  Every parser routine   *)
(* is an operator from a parser state to a Result that carries the parser  *)
(* state the routine leaves behind.                                        *)
(***************************************************************************)
EXTENDS Integers, Sequences, FiniteSets, TLC

VARIABLES input, st, reported, pc, out

vars == <<input, st, reported, pc, out>>

(***************************************************************************)
(* Bounds of the model.                                                    *)
(***************************************************************************)
MaxLen == 4
MaxReports == 3
MaxEatLen == 3
MaxBlockLen == 6
MaxOps == 2
MaxItems == 2
MaxParams == 2
MaxBody == 3
MaxBytes == 4
MaxTextLen == 2
MaxInterns == 3
MaxPanicLen == 3
MaxRoutineLen == 3

(***************************************************************************)
(* Tokens.  A Token is {token: TokenKind, pos}; a TokenKind is a kind and, *)
(* for keywords, operators, literals and identifiers, its payload.         *)
(***************************************************************************)
K(kind) == [kind |-> kind, val |-> ""]
Kw(v) == [kind |-> "Keyword", val |-> v]
Op(v) == [kind |-> "Operator", val |-> v]
Lit(v) == [kind |-> "Literal", val |-> v]
Id(s) == [kind |-> "Identifier", val |-> s]

Token(kind, pos) == [token |-> kind, pos |-> pos]

None == << >>
Some(x) == <<x>>

\* The token stream of a lexer run: the i-th token carries position i.
Tokens(kinds) == [i \in 1..Len(kinds) |-> Token(kinds[i], i)]

SeqsUpTo(S, n) == UNION {[1..k -> S] : k \in 0..n}

(***************************************************************************)
(* Results.  The parser state carries two ghost flags: failed records that *)
(* some routine has returned an Err since the parser was constructed, and  *)
(* dropped that sep_by has discarded the Err of an item parser that had    *)
(* consumed tokens before it failed.                                       *)
(***************************************************************************)
\* The tokens the parser has not consumed yet.
Rest(s) == s.token \o s.cursor

Ok(v, s) == [ok |-> TRUE, val |-> v, st |-> s]
Err(e, s) == [ok |-> FALSE, err |-> e, st |-> [s EXCEPT !.failed = TRUE]]

UnexpectedEof == [error |-> "UnexpectedEof"]
Unexpected(tok, expected) == [error |-> "Unexpected", token |-> tok, expected |-> expected]
DuplicateKeys(pos) == [error |-> "DuplicateKeys", pos |-> pos]

\* A panic (panic!, or expect on a None) is no Result: it unwinds through
\* every caller, `?` and `while let Ok` included.  It is carried as an
\* answer that is not Ok and that no routine handles.
Panic(s) == [ok |-> FALSE, err |-> [error |-> "Panic"], st |-> s]
IsPanic(r) == ~r.ok /\ r.err.error = "Panic"

(***************************************************************************)
(* Parser::new, peek, step, eat, expect, parse_identifier.                 *)
(***************************************************************************)
New(toks) ==
  IF toks = << >>
  THEN [token |-> None, cursor |-> << >>, failed |-> FALSE, dropped |-> FALSE]
  ELSE [token |-> Some(Head(toks)), cursor |-> Tail(toks), failed |-> FALSE, dropped |-> FALSE]

Peek(s) == IF s.cursor = << >> THEN None ELSE Some(Head(s.cursor))

Step(s) ==
  IF s.cursor = << >>
  THEN [s EXCEPT !.token = None]
  ELSE [s EXCEPT !.token = Some(Head(s.cursor)), !.cursor = Tail(s.cursor)]

Take(s) == [s EXCEPT !.token = None]

\* The closures handed to eat: each maps the token taken out of the slot to
\* Ok(value) or to Err((error, token)).
EatExpect(expected, tok) ==
  IF tok.token = expected
  THEN [ok |-> TRUE, val |-> tok.token]
  ELSE [ok |-> FALSE, err |-> Unexpected(tok, expected), token |-> tok]

EatIdentifier(tok) ==
  IF tok.token.kind = "Identifier"
  THEN [ok |-> TRUE, val |-> <<tok.token.val, tok.pos>>]
  ELSE [ok |-> FALSE, err |-> Unexpected(tok, "identifier"), token |-> tok]

EatEndOrElse(tok) ==
  IF tok.token = Kw("End") THEN [ok |-> TRUE, val |-> FALSE]
  ELSE IF tok.token = Kw("Else") THEN [ok |-> TRUE, val |-> TRUE]
  ELSE [ok |-> FALSE, err |-> Unexpected(tok, "end or else"), token |-> tok]

\* An eat that does not roll the token back on failure.
EatNoRollback(s, e) ==
  IF s.token # None
  THEN IF e.ok THEN Ok(e.val, Step(Take(s))) ELSE Err(e.err, Take(s))
  ELSE Err(UnexpectedEof, s)

\* eat(s, e): e is the closure's answer on the token in the slot (it is not
\* looked at when the slot is empty).
Eat(s, e) ==
  IF s.token # None
  THEN IF e.ok
       THEN Ok(e.val, Step(Take(s)))
       ELSE Err(e.err, [Take(s) EXCEPT !.token = Some(e.token)])
  ELSE Err(UnexpectedEof, s)

Cur(s) == s.token[1]

Expect(s, expected) ==
  Eat(s, IF s.token # None THEN EatExpect(expected, Cur(s)) ELSE [ok |-> FALSE])

ParseIdentifier(s) ==
  Eat(s, IF s.token # None THEN EatIdentifier(Cur(s)) ELSE [ok |-> FALSE])

EatIfTail(s) ==
  Eat(s, IF s.token # None THEN EatEndOrElse(Cur(s)) ELSE [ok |-> FALSE])

(***************************************************************************)
(* The syntax tree (src/syntax/ast/mod.rs), as the parser builds it.       *)
(***************************************************************************)
Block(stmts) == [block |-> "Block", stmts |-> stmts]
BlockDefault == Block(<< >>)
BlockIllFormed == [block |-> "IllFormed"]

\* From<lexer::Literal> for Literal.
LiteralFrom(v) ==
  CASE v = "nil" -> [lit |-> "Nil"]
    [] v = "true" -> [lit |-> "Bool", bool |-> TRUE]
    [] v = "false" -> [lit |-> "Bool", bool |-> FALSE]
    [] OTHER -> [lit |-> "Int", int |-> v]

LitNil == [lit |-> "Nil"]
LitArray(items) == [lit |-> "Array", items |-> items]
LitDict(dict) == [lit |-> "Dict", dict |-> dict]
LitFunction(args, body) == [lit |-> "Function", args |-> args, body |-> body]
LitIdentifier(sym) == [lit |-> "Identifier", symbol |-> sym]

ExprSelf(pos) == [expr |-> "Self", pos |-> pos]
ExprIdentifier(sym, pos) == [expr |-> "Identifier", identifier |-> sym, pos |-> pos]
ExprLiteral(lit, pos) == [expr |-> "Literal", literal |-> lit, pos |-> pos]
ExprUnaryOp(op, operand, pos) == [expr |-> "UnaryOp", op |-> op, operand |-> operand, pos |-> pos]
ExprBinaryOp(left, op, right, pos) ==
  [expr |-> "BinaryOp", left |-> left, op |-> op, right |-> right, pos |-> pos]
ExprIf(cond, then, otherwise, pos) ==
  [expr |-> "If", condition |-> cond, then |-> then, otherwise |-> otherwise, pos |-> pos]
ExprAccess(object, field, pos) == [expr |-> "Access", object |-> object, field |-> field, pos |-> pos]
ExprCall(function, params, pos) == [expr |-> "Call", function |-> function, params |-> params, pos |-> pos]
ExprCommandBlock(kind, commands, pos) ==
  [expr |-> "CommandBlock", kind |-> kind, commands |-> commands, pos |-> pos]

StmtLet(id, init, pos) == [stmt |-> "Let", identifier |-> id, init |-> init, pos |-> pos]
StmtAssign(left, right) == [stmt |-> "Assign", left |-> left, right |-> right]
StmtReturn(e, pos) == [stmt |-> "Return", expr |-> e, pos |-> pos]
StmtBreak(pos) == [stmt |-> "Break", pos |-> pos]
StmtWhile(cond, block, pos) == [stmt |-> "While", condition |-> cond, block |-> block, pos |-> pos]
StmtFor(id, e, block, pos) ==
  [stmt |-> "For", identifier |-> id, expr |-> e, block |-> block, pos |-> pos]
StmtExpr(e) == [stmt |-> "Expr", expr |-> e]

\* From<lexer::Operator> for UnaryOp / BinaryOp: partial conversions that
\* panic outside their domain.
UnaryOps == {"Minus", "Not", "Try"}
BinaryOps == {"Plus", "Minus", "Times", "Div", "Mod", "Equals", "NotEquals", "Greater",
              "GreaterEquals", "Lower", "LowerEquals", "And", "Or", "Concat"}
UnaryOpFrom(op) == IF op \in UnaryOps THEN op ELSE "panic"
BinaryOpFrom(op) == IF op \in BinaryOps THEN op ELSE "panic"

(***************************************************************************)
(* The operator classes of the lexer and the command sub-grammar.          *)
(***************************************************************************)
IsFactor(op) == op \in {"Times", "Div", "Mod"}
IsTerm(op) == op \in {"Plus", "Minus"}
IsComparison(op) == op \in {"Lower", "LowerEquals", "Greater", "GreaterEquals"}
IsEquality(op) == op \in {"Equals", "NotEquals"}
IsUnary(op) == op \in {"Minus", "Not"}

FromToken(tk) ==
  IF tk.kind \in {"Command", "CaptureCommand", "AsyncCommand"} THEN Some(tk.kind) ELSE None

RECURSIVE CommandLoop(_, _)
CommandLoop(s, words) ==
  IF s.token = None THEN Err(UnexpectedEof, s)
  ELSE IF s.token[1].token = K("CloseCommand") THEN Ok(words, Step(s))
  ELSE CommandLoop(Step(s), Append(words, s.token[1].token))

ParseCommandBlock(s) == CommandLoop(s, << >>)

(***************************************************************************)
(* The grammar.                                                            *)
(***************************************************************************)
\* parse_expression: the precedence levels, lowest first; each level parses
\* its operands one level higher, the last one with parse_unop.
LevelsTermOverFactor == <<"Or", "And", "Equality", "Comparison", "Concat", "Factor", "Term">>

Levels == <<"Or", "And", "Equality", "Comparison", "Concat", "Term", "Factor">>

\* A check of the last level, or, that lets the assignment operator through.
CheckOrTakesAssign(level, op) ==
  CASE Levels[level] = "Factor" -> IsFactor(op)
    [] Levels[level] = "Term" -> IsTerm(op)
    [] Levels[level] = "Concat" -> op = "Concat"
    [] Levels[level] = "Comparison" -> IsComparison(op)
    [] Levels[level] = "Equality" -> IsEquality(op)
    [] Levels[level] = "And" -> op = "And"
    [] Levels[level] = "Or" -> op = "Or" \/ op = "Assign"

Check(level, op) ==
  CASE Levels[level] = "Factor" -> IsFactor(op)
    [] Levels[level] = "Term" -> IsTerm(op)
    [] Levels[level] = "Concat" -> op = "Concat"
    [] Levels[level] = "Comparison" -> IsComparison(op)
    [] Levels[level] = "Equality" -> IsEquality(op)
    [] Levels[level] = "And" -> op = "And"
    [] Levels[level] = "Or" -> op = "Or"

IsKind(s, tk) == s.token # None /\ s.token[1].token = tk

\* The tests of parse_block: where a block ends, and what ends it.
EndsBlockAlsoThen(tk) == tk = Kw("Else") \/ tk = Kw("End") \/ tk = Kw("Then")
EndsBlock(tk) == tk = Kw("Else") \/ tk = Kw("End")
NeverReturn(stmt) == FALSE
IsReturn(stmt) == stmt.stmt = "Return"

\* The Let statement that `function identifier ...` stands for; the mutant
\* records the position of the function keyword instead of the identifier's.
LetFunctionAtKeyword(identifier, id_pos, args, body, pos) ==
  StmtLet(identifier, ExprLiteral(LitFunction(args, body), pos), pos)

LetFunction(identifier, id_pos, args, body, pos) ==
  StmtLet(identifier, ExprLiteral(LitFunction(args, body), pos), id_pos)

\* The loop of the dict literal: HashMap::insert answers Some(old value) for
\* a key the map already holds (and overwrites it).
RECURSIVE InsertAll(_, _, _)
InsertAll(items, i, dict) ==
  IF i > Len(items) THEN [dup |-> FALSE, dict |-> dict]
  ELSE LET id == items[i][1]
           value == items[i][2]
       IN IF id \in DOMAIN dict
          THEN [dup |-> TRUE, dict |-> [dict EXCEPT ![id] = value]]
          ELSE InsertAll(items, i + 1,
                         [k \in DOMAIN dict \cup {id} |-> IF k = id THEN value ELSE dict[k]])

EmptyDict == [k \in {} |-> 0]

\* Dict literal, after its items and the closing bracket are parsed.
DictKeepLast(items, pos, s) ==
  Ok(ExprLiteral(LitDict([k \in {items[i][1] : i \in 1..Len(items)} |->
                            items[CHOOSE i \in 1..Len(items) :
                                    /\ items[i][1] = k
                                    /\ \A j \in (i+1)..Len(items) : items[j][1] # k][2]]),
                 pos), s)

BuildDict(items, pos, s) ==
  LET ins == InsertAll(items, 1, EmptyDict) IN
  IF ins.dup THEN Err(DuplicateKeys(pos), s)
  ELSE Ok(ExprLiteral(LitDict(ins.dict), pos), s)

\* The routines of the grammar call one another in a cycle: a primary
\* expression holds blocks and expressions.
RECURSIVE ParseBlock(_), ParseStatement(_), ParseExpression(_), ParsePostfix(_),
          ParsePrimary(_), ParseFunction(_), ParseItem(_, _), SepBy(_, _, _),
          CommaSep(_, _)

\* `let x = r?; then`: an Err is returned as it is, an Ok goes on with x.
Try(r, Then(_)) == IF ~r.ok THEN r ELSE Then(r)

\* The item parsers handed to comma_sep: parse_expression, the parameter
\* closure of parse_function and the key: value closure of the dict literal.
ParseItem(what, s) ==
  CASE what = "expression" -> ParseExpression(s)
    [] what = "parameter" ->
         Try(ParseIdentifier(s), LAMBDA r1 : Ok(r1.val[1], r1.st))
    [] what = "dict item" ->
         Try(ParseIdentifier(s), LAMBDA r1 :
         Try(Expect(r1.st, K("Colon")), LAMBDA r2 :
         Try(ParseExpression(r2.st), LAMBDA r3 :
         Ok(<<r1.val[1], r3.val>>, r3.st))))

\* sep_by: `while let Ok(item) = parse(self)` with the answer r of parse; an
\* Err of parse ends the loop and is discarded.
RECURSIVE SepByLoop(_, _, _, _)
WhileLetOk(what, sep, s, items, r) ==
  IF IsPanic(r) THEN r
  ELSE IF ~r.ok THEN Ok(items, [r.st EXCEPT !.dropped = @ \/ Len(Rest(r.st)) < Len(Rest(s))])
  ELSE IF IsKind(r.st, sep)
       THEN SepByLoop(what, sep, Step(r.st), Append(items, r.val))
       ELSE Ok(Append(items, r.val), r.st)

SepByLoop(what, sep, s, items) == WhileLetOk(what, sep, s, items, ParseItem(what, s))

SepBy(what, sep, s) == SepByLoop(what, sep, s, << >>)

CommaSep(what, s) == SepBy(what, K("Comma"), s)

ParseFunction(s) ==
  Try(Expect(s, K("OpenParens")), LAMBDA r1 :
  Try(CommaSep("parameter", r1.st), LAMBDA r2 :
  Try(Expect(r2.st, K("CloseParens")), LAMBDA r3 :
  Try(ParseBlock(r3.st), LAMBDA r4 :
  Try(Expect(r4.st, Kw("End")), LAMBDA r5 :
  Ok(<<r2.val, r4.val>>, r5.st))))))

ParsePrimary(s) ==
  IF s.token = None THEN Err(UnexpectedEof, s)
  ELSE
  LET t == Cur(s)
      pos == t.pos
      s0 == Take(s)
  IN
  CASE t.token.kind = "Identifier" -> Ok(ExprIdentifier(t.token.val, pos), Step(s0))
    [] t.token = Kw("Self_") -> Ok(ExprSelf(pos), Step(s0))
    [] t.token.kind = "Literal" -> Ok(ExprLiteral(LiteralFrom(t.token.val), pos), Step(s0))
    [] t.token = K("OpenBracket") ->
         Try(CommaSep("expression", Step(s0)), LAMBDA r1 :
         Try(Expect(r1.st, K("CloseBracket")), LAMBDA r2 :
         Ok(ExprLiteral(LitArray(r1.val), pos), r2.st)))
    [] t.token = K("OpenDict") ->
         Try(CommaSep("dict item", Step(s0)), LAMBDA r1 :
         Try(Expect(r1.st, K("CloseBracket")), LAMBDA r2 :
         BuildDict(r1.val, pos, r2.st)))
    [] t.token = Kw("Function") ->
         Try(ParseFunction(Step(s0)), LAMBDA r1 :
         Ok(ExprLiteral(LitFunction(r1.val[1], r1.val[2]), pos), r1.st))
    [] FromToken(t.token) # None ->
         Try(ParseCommandBlock(Step(s0)), LAMBDA r1 :
         IF FromToken(t.token) = None THEN Panic(r1.st)
         ELSE Ok(ExprCommandBlock(FromToken(t.token)[1], r1.val, pos), r1.st))
    [] t.token = Kw("If") ->
         Try(ParseExpression(Step(s0)), LAMBDA r1 :
         Try(Expect(r1.st, Kw("Then")), LAMBDA r2 :
         Try(ParseBlock(r2.st), LAMBDA r3 :
         Try(EatIfTail(r3.st), LAMBDA r4 :
         IF r4.val
         THEN Try(ParseBlock(r4.st), LAMBDA r5 :
              Try(Expect(r5.st, Kw("End")), LAMBDA r6 :
              Ok(ExprIf(r1.val, r3.val, r5.val, pos), r6.st)))
         ELSE Ok(ExprIf(r1.val, r3.val, BlockDefault, pos), r4.st)))))
    [] t.token = K("OpenParens") ->
         Try(ParseExpression(Step(s0)), LAMBDA r1 :
         Try(Expect(r1.st, K("CloseParens")), LAMBDA r2 :
         Ok(r1.val, r2.st)))
    [] OTHER -> Err(Unexpected(t, "expression"), [s0 EXCEPT !.token = Some(t)])

RECURSIVE PostfixLoop(_, _)
PostfixLoop(e, s) ==
  LET t == s.token
      s0 == Take(s)
  IN
  IF t = None THEN Ok(e, [s0 EXCEPT !.token = t])
  ELSE
  CASE t[1].token = K("OpenParens") ->
         Try(CommaSep("expression", Step(s0)), LAMBDA r1 :
         Try(Expect(r1.st, K("CloseParens")), LAMBDA r2 :
         PostfixLoop(ExprCall(e, r1.val, t[1].pos), r2.st)))
    [] t[1].token = K("OpenBracket") ->
         Try(ParseExpression(Step(s0)), LAMBDA r1 :
         Try(Expect(r1.st, K("CloseBracket")), LAMBDA r2 :
         PostfixLoop(ExprAccess(e, r1.val, t[1].pos), r2.st)))
    [] t[1].token = Op("Dot") ->
         Try(ParseIdentifier(Step(s0)), LAMBDA r1 :
         PostfixLoop(ExprAccess(e, ExprLiteral(LitIdentifier(r1.val[1]), r1.val[2]),
                                t[1].pos),
                     r1.st))
    [] OTHER -> Ok(e, [s0 EXCEPT !.token = t])

ParsePostfix(s) == Try(ParsePrimary(s), LAMBDA r : PostfixLoop(r.val, r.st))

RECURSIVE ParseUnop(_)

\* A parse_unop that does not put the token it took back into the slot
\* before it calls parse_postfix.
ParseUnopNoRestore(s) ==
  LET t == s.token
      s0 == Take(s)
  IN
  IF t # None /\ t[1].token.kind = "Operator" /\ IsUnary(t[1].token.val)
  THEN Try(ParseUnop(Step(s0)), LAMBDA r :
       IF UnaryOpFrom(t[1].token.val) = "panic" THEN Panic(r.st)
       ELSE Ok(ExprUnaryOp(UnaryOpFrom(t[1].token.val), r.val, t[1].pos), r.st))
  ELSE ParsePostfix(s0)

ParseUnop(s) ==
  LET t == s.token
      s0 == Take(s)
  IN
  IF t # None /\ t[1].token.kind = "Operator" /\ IsUnary(t[1].token.val)
  THEN Try(ParseUnop(Step(s0)), LAMBDA r :
       IF UnaryOpFrom(t[1].token.val) = "panic" THEN Panic(r.st)
       ELSE Ok(ExprUnaryOp(UnaryOpFrom(t[1].token.val), r.val, t[1].pos), r.st))
  ELSE ParsePostfix([s0 EXCEPT !.token = t])

\* parse_binop(higher, check) at a level of parse_expression: `higher` is
\* parse_binop at the next level, and parse_unop above the last level.  Every
\* level starts by calling `higher`, so a call at a level comes down to
\* parse_unop followed by the loop of the last level, then the loop of the
\* level below it, ..., then the loop of the level called; an Err of any of
\* them is the answer (the `?` after higher(self)).  LevelLoops runs the loops
\* of levels l down to `level` on the answer r of what precedes them.
RECURSIVE ParseBinop(_, _), BinopLoop(_, _, _), LevelLoops(_, _, _)

ParseHigher(level, s) == ParseBinop(level + 1, s)

\* A loop that parses its right operand at its own level instead of one
\* level higher, which groups a chain of operators to the right.
BinopLoopRight(level, e, s) ==
  LET t == s.token
      s0 == Take(s)
  IN
  IF t # None /\ t[1].token.kind = "Operator" /\ Check(level, t[1].token.val)
  THEN Try(ParseBinop(level, Step(s0)), LAMBDA r :
       IF BinaryOpFrom(t[1].token.val) = "panic" THEN Panic(r.st)
       ELSE Ok(ExprBinaryOp(e, BinaryOpFrom(t[1].token.val), r.val, t[1].pos), r.st))
  ELSE Ok(e, [s0 EXCEPT !.token = t])

BinopLoop(level, e, s) ==
  LET t == s.token
      s0 == Take(s)
  IN
  IF t # None /\ t[1].token.kind = "Operator" /\ Check(level, t[1].token.val)
  THEN Try(ParseHigher(level, Step(s0)), LAMBDA r :
       IF BinaryOpFrom(t[1].token.val) = "panic" THEN Panic(r.st)
       ELSE BinopLoop(level,
                      ExprBinaryOp(e, BinaryOpFrom(t[1].token.val), r.val, t[1].pos),
                      r.st))
  ELSE Ok(e, [s0 EXCEPT !.token = t])

LevelLoops(l, level, r) ==
  IF l < level THEN r
  ELSE Try(r, LAMBDA e : LevelLoops(l - 1, level, BinopLoop(l, e.val, e.st)))

ParseBinop(level, s) == LevelLoops(Len(Levels), level, ParseUnop(s))

ParseExpression(s) == ParseBinop(1, s)

ParseStatement(s) ==
  IF s.token = None THEN Err(UnexpectedEof, s)
  ELSE
  LET t == Cur(s)
      pos == t.pos
      s0 == Take(s)
  IN
  CASE t.token = Kw("Let") ->
         Try(ParseIdentifier(Step(s0)), LAMBDA r1 :
         IF IsKind(r1.st, Op("Assign"))
         THEN Try(ParseExpression(Step(r1.st)), LAMBDA r2 :
              Ok(StmtLet(r1.val[1], r2.val, pos), r2.st))
         ELSE Ok(StmtLet(r1.val[1], ExprLiteral(LitNil, pos), pos), r1.st))
    [] t.token = Kw("Function") /\ Peek(s0) # None /\ Peek(s0)[1].token.kind = "Identifier" ->
         Try(ParseIdentifier(Step(s0)), LAMBDA r1 :
         Try(ParseFunction(r1.st), LAMBDA r2 :
         Ok(LetFunction(r1.val[1], r1.val[2], r2.val[1], r2.val[2], pos), r2.st)))
    [] t.token = Kw("Return") ->
         Try(ParseExpression(Step(s0)), LAMBDA r1 : Ok(StmtReturn(r1.val, pos), r1.st))
    [] t.token = Kw("Break") -> Ok(StmtBreak(pos), Step(s0))
    [] t.token = Kw("While") ->
         Try(ParseExpression(Step(s0)), LAMBDA r1 :
         Try(Expect(r1.st, Kw("Do")), LAMBDA r2 :
         Try(ParseBlock(r2.st), LAMBDA r3 :
         Try(Expect(r3.st, Kw("End")), LAMBDA r4 :
         Ok(StmtWhile(r1.val, r3.val, pos), r4.st)))))
    [] t.token = Kw("For") ->
         Try(ParseIdentifier(Step(s0)), LAMBDA r1 :
         Try(Expect(r1.st, Kw("In")), LAMBDA r2 :
         Try(ParseExpression(r2.st), LAMBDA r3 :
         Try(Expect(r3.st, Kw("Do")), LAMBDA r4 :
         Try(ParseBlock(r4.st), LAMBDA r5 :
         Try(Expect(r5.st, Kw("End")), LAMBDA r6 :
         Ok(StmtFor(r1.val[1], r3.val, r5.val, pos), r6.st)))))))
    [] OTHER ->
         Try(ParseExpression([s0 EXCEPT !.token = Some(t)]), LAMBDA r1 :
         IF IsKind(r1.st, Op("Assign"))
         THEN Try(ParseExpression(Step(r1.st)), LAMBDA r2 :
              Ok(StmtAssign(r1.val, r2.val), r2.st))
         ELSE Ok(StmtExpr(r1.val), r1.st))

RECURSIVE BlockLoop(_, _)
BlockLoop(s, block) ==
  IF s.token = None THEN Ok(Block(block), s)
  ELSE IF EndsBlock(Cur(s).token) THEN Ok(Block(block), s)
  ELSE Try(ParseStatement(s), LAMBDA r :
       IF IsReturn(r.val) THEN Ok(Block(Append(block, r.val)), r.st)
       ELSE BlockLoop(r.st, Append(block, r.val)))

ParseBlock(s) == BlockLoop(s, << >>)

(***************************************************************************)
(* Parser::new followed by Parser::parse: the loop that calls parse_block, *)
(* returns its block or reports its error and calls it again.              *)
(***************************************************************************)
ParseKinds == {Kw("Let"), Kw("Return"), Kw("Break"), Id("a"), Lit("1"), Op("Plus"),
               K("OpenBracket"), K("CloseBracket")}

NoBlock == [block |-> "None"]

Init ==
  /\ input \in {Tokens(ks) : ks \in SeqsUpTo(ParseKinds, MaxLen)}
  /\ st = New(input)
  /\ reported = << >>
  /\ pc = "parse"
  /\ out = NoBlock

\* A parse that answers the ill-formed Block once an error was reported.
ParseReturnIllFormed ==
  /\ pc = "parse"
  /\ LET r == ParseBlock(st) IN
       /\ r.ok
       /\ out' = IF reported = << >> THEN r.val ELSE BlockIllFormed
       /\ st' = r.st
       /\ pc' = "done"
  /\ UNCHANGED <<input, reported>>

\* Ok(block) => return block
ParseReturn ==
  /\ pc = "parse"
  /\ LET r == ParseBlock(st) IN
       /\ r.ok
       /\ out' = r.val
       /\ st' = r.st
       /\ pc' = "done"
  /\ UNCHANGED <<input, reported>>

\* Err(error) => self.error_reporter.report(error), and the loop goes on.
\* The reporter's record is cut at MaxReports.
ParseReport ==
  /\ pc = "parse"
  /\ Len(reported) < MaxReports
  /\ LET r == ParseBlock(st) IN
       /\ ~r.ok
       /\ ~IsPanic(r)
       /\ reported' = Append(reported, r.err)
       /\ st' = r.st
  /\ UNCHANGED <<input, pc, out>>

Next == ParseReturn \/ ParseReport

Spec == Init /\ [][Next]_vars

\* C1: parse terminates because every retry of block-parsing after a reported
\* error starts from a cursor that has advanced: a failed attempt leaves
\* fewer unconsumed tokens than it found.
C1_RetryAdvances ==
  [][(pc = "parse" /\ pc' = "parse") => Len(Rest(st')) < Len(Rest(st))]_vars

\* C2: no input on which a sub-parser failed is accepted with zero
\* diagnostics.  Stated for the failures that cannot be the end of a list:
\* whenever parse returns after an item parser of sep_by returned an error
\* with tokens already consumed, report was called at least once.
C2_FailureIsReported ==
  (pc = "done" /\ st.dropped) => Len(reported) >= 1

(***************************************************************************)
(* The token-consuming routines, called at every position of a token       *)
(* stream: expect with each kind, parse_identifier, and the eat of the     *)
(* `end or else` closure of the if expression.                             *)
(***************************************************************************)
EatKinds == {Id("a"), Id("b"), Kw("End"), Kw("Else"), K("Colon")}

InitEat ==
  /\ input \in {Tokens(ks) : ks \in SeqsUpTo(EatKinds, MaxEatLen)}
  /\ st = New(input)
  /\ reported = << >>
  /\ pc = "eat"
  /\ out = [op |-> "new"]

CallStep ==
  /\ pc = "eat"
  /\ st.token # None
  /\ st' = Step(st)
  /\ out' = [op |-> "step"]
  /\ UNCHANGED <<input, reported, pc>>

CallExpect ==
  /\ pc = "eat"
  /\ \E k \in EatKinds :
       LET r == Expect(st, k) IN
         /\ out' = [op |-> "expect", expected |-> k, pre |-> st, res |-> r]
         /\ st' = r.st
  /\ UNCHANGED <<input, reported, pc>>

CallParseIdentifier ==
  /\ pc = "eat"
  /\ LET r == ParseIdentifier(st) IN
       /\ out' = [op |-> "parse_identifier", pre |-> st, res |-> r]
       /\ st' = r.st
  /\ UNCHANGED <<input, reported, pc>>

CallEatIfTail ==
  /\ pc = "eat"
  /\ LET r == EatIfTail(st) IN
       /\ out' = [op |-> "eat", pre |-> st, res |-> r]
       /\ st' = r.st
  /\ UNCHANGED <<input, reported, pc>>

NextEat == CallStep \/ CallExpect \/ CallParseIdentifier \/ CallEatIfTail

SpecEat == InitEat /\ [][NextEat]_vars

\* What the call recorded in out accepts, and the value it then returns.
Accepts(call, tok) ==
  CASE call.op = "expect" -> tok.token = call.expected
    [] call.op = "parse_identifier" -> tok.token.kind = "Identifier"
    [] call.op = "eat" -> tok.token \in {Kw("End"), Kw("Else")}

ValueOf(call, tok) ==
  CASE call.op = "expect" -> tok.token
    [] call.op = "parse_identifier" -> <<tok.token.val, tok.pos>>
    [] call.op = "eat" -> tok.token = Kw("Else")

SameSlots(s, t) == s.token = t.token /\ s.cursor = t.cursor

\* C3: token consumption is transactional.  A call of eat, expect or
\* parse_identifier either returns the current token's value and advances by
\* exactly one token, or returns an error carrying the current token and
\* leaves the token slot and the cursor as they were; at end of input it
\* returns UnexpectedEof and leaves the state as it was.
C3_Transactional ==
  out.op \in {"expect", "parse_identifier", "eat"} =>
    LET pre == out.pre
        r == out.res
    IN
    IF pre.token = None
    THEN ~r.ok /\ r.err = UnexpectedEof /\ SameSlots(r.st, pre)
    ELSE IF Accepts(out, Cur(pre))
    THEN /\ r.ok
         /\ r.val = ValueOf(out, Cur(pre))
         /\ r.st.token = Peek(pre)
         /\ Rest(r.st) = pre.cursor
    ELSE /\ ~r.ok
         /\ r.err.error = "Unexpected"
         /\ r.err.token = Cur(pre)
         /\ SameSlots(r.st, pre)

\* An expect that failed on a token with more tokens behind it.
C3_Witness ==
  /\ out.op = "expect"
  /\ ~out.res.ok
  /\ out.pre.token # None
  /\ out.pre.cursor # << >>

(***************************************************************************)
(* parse_block, called on a parser at the start of a token stream.  The    *)
(* streams are closed under suffixes, so they include the streams that the *)
(* nested calls (the blocks of if, while, for and function) start from.    *)
(***************************************************************************)
BlockKinds == {Kw("If"), Kw("Then"), Kw("Else"), Kw("End"), Kw("Return"), Id("a")}

InitBlock ==
  /\ input \in {Tokens(ks) : ks \in SeqsUpTo(BlockKinds, MaxBlockLen)}
  /\ st = New(input)
  /\ reported = << >>
  /\ pc = "block"
  /\ out = [op |-> "new"]

CallParseBlock ==
  /\ pc = "block"
  /\ LET r == ParseBlock(st) IN
       /\ out' = [op |-> "parse_block", pre |-> st, res |-> r]
       /\ st' = r.st
  /\ pc' = "called"
  /\ UNCHANGED <<input, reported>>

NextBlock == CallParseBlock

SpecBlock == InitBlock /\ [][NextBlock]_vars

\* The blocks of a syntax tree: every block of it, nested ones too, is a
\* Block whose statements hold a Return at the last place only.
RECURSIVE BlockReturnsLast(_), StmtReturnsLast(_), ExprReturnsLast(_)
BlockReturnsLast(b) ==
  /\ b.block = "Block"
  /\ \A i \in 1..Len(b.stmts) :
       /\ b.stmts[i].stmt = "Return" => i = Len(b.stmts)
       /\ StmtReturnsLast(b.stmts[i])

StmtReturnsLast(s) ==
  CASE s.stmt = "Let" -> ExprReturnsLast(s.init)
    [] s.stmt = "Assign" -> ExprReturnsLast(s.left) /\ ExprReturnsLast(s.right)
    [] s.stmt = "Return" -> ExprReturnsLast(s.expr)
    [] s.stmt = "While" -> ExprReturnsLast(s.condition) /\ BlockReturnsLast(s.block)
    [] s.stmt = "For" -> ExprReturnsLast(s.expr) /\ BlockReturnsLast(s.block)
    [] s.stmt = "Expr" -> ExprReturnsLast(s.expr)
    [] OTHER -> TRUE

ExprReturnsLast(e) ==
  CASE e.expr = "UnaryOp" -> ExprReturnsLast(e.operand)
    [] e.expr = "BinaryOp" -> ExprReturnsLast(e.left) /\ ExprReturnsLast(e.right)
    [] e.expr = "If" ->
         /\ ExprReturnsLast(e.condition)
         /\ BlockReturnsLast(e.then)
         /\ BlockReturnsLast(e.otherwise)
    [] e.expr = "Access" -> ExprReturnsLast(e.object) /\ ExprReturnsLast(e.field)
    [] e.expr = "Call" ->
         /\ ExprReturnsLast(e.function)
         /\ \A i \in 1..Len(e.params) : ExprReturnsLast(e.params[i])
    [] e.expr = "Literal" ->
         CASE e.literal.lit = "Array" ->
                \A i \in 1..Len(e.literal.items) : ExprReturnsLast(e.literal.items[i])
           [] e.literal.lit = "Dict" ->
                \A k \in DOMAIN e.literal.dict : ExprReturnsLast(e.literal.dict[k])
           [] e.literal.lit = "Function" -> BlockReturnsLast(e.literal.body)
           [] OTHER -> TRUE
    [] OTHER -> TRUE

IsSuffix(t, w) == Len(t) <= Len(w) /\ t = SubSeq(w, Len(w) - Len(t) + 1, Len(w))

\* C4: in every Block the parser produces, top-level or nested, a Return can
\* only be the last statement; a block that starts with `return a` holds
\* exactly that one Return and leaves the tokens that follow unconsumed.
C4_ReturnIsLast ==
  (out.op = "parse_block" /\ out.res.ok) =>
    /\ BlockReturnsLast(out.res.val)
    /\ (Len(input) >= 2 /\ input[1].token = Kw("Return") /\ input[2].token = Id("a")) =>
         /\ out.res.val = Block(<<StmtReturn(ExprIdentifier("a", 2), 1)>>)
         /\ Rest(out.res.st) = SubSeq(input, 3, Len(input))

\* `return a` followed by the tokens of another statement, which the block
\* leaves unconsumed.
C4_Witness ==
  /\ out.op = "parse_block"
  /\ out.res.ok
  /\ Len(input) >= 1
  /\ input[1].token = Kw("Return")
  /\ Len(out.res.val.stmts) = 1
  /\ Len(Rest(out.res.st)) >= 2
  /\ Cur(out.res.st).token \in {Kw("Return"), Kw("If")}

\* A block nested in an if that ends with a Return.
C4_NestedReturn ==
  /\ out.op = "parse_block"
  /\ out.res.ok
  /\ Len(out.res.val.stmts) = 1
  /\ out.res.val.stmts[1].stmt = "Expr"
  /\ out.res.val.stmts[1].expr.expr = "If"
  /\ out.res.val.stmts[1].expr.then.stmts # << >>
  /\ out.res.val.stmts[1].expr.then.stmts[1].stmt = "Return"

\* C5: parse_block returns successfully only when the current token is
\* `else` or `end`, the input is exhausted, or the last statement it parsed
\* is a Return; the terminator is not consumed: what is left, the current
\* token first, is a suffix of the input the call started from.
C5_BlockStops ==
  (out.op = "parse_block" /\ out.res.ok) =>
    /\ \/ IsKind(out.res.st, Kw("Else"))
       \/ IsKind(out.res.st, Kw("End"))
       \/ (out.res.st.token = None /\ out.res.st.cursor = << >>)
       \/ /\ out.res.val.stmts # << >>
          /\ out.res.val.stmts[Len(out.res.val.stmts)].stmt = "Return"
    /\ IsSuffix(Rest(out.res.st), Rest(out.pre))

\* A block that parsed a statement and stopped in front of an `else` that
\* has more tokens behind it.
C5_Witness ==
  /\ out.op = "parse_block"
  /\ out.res.ok
  /\ out.res.val.stmts # << >>
  /\ out.res.val.stmts[Len(out.res.val.stmts)].stmt # "Return"
  /\ IsKind(out.res.st, Kw("Else"))
  /\ out.res.st.cursor # << >>

(***************************************************************************)
(* parse_expression, called on chains of operands and binary operators:    *)
(* x, x op y, x op y op z, ... with up to MaxOps operators.                *)
(***************************************************************************)
Operands == {Id("a"), Lit("1")}

\* The chain xs[1] ops[1] xs[2] ... ops[n] xs[n+1].
Chain(xs, ops) ==
  [i \in 1..(2 * Len(ops) + 1) |->
     IF i % 2 = 1 THEN xs[(i + 1) \div 2] ELSE Op(ops[i \div 2])]

InitExpr ==
  /\ \E n \in 0..MaxOps :
       \E xs \in [1..(n + 1) -> Operands], ops \in [1..n -> BinaryOps] :
         input = Tokens(Chain(xs, ops))
  /\ st = New(input)
  /\ reported = << >>
  /\ pc = "expr"
  /\ out = [op |-> "new"]

CallParseExpression ==
  /\ pc = "expr"
  /\ LET r == ParseExpression(st) IN
       /\ out' = [op |-> "parse_expression", pre |-> st, res |-> r]
       /\ st' = r.st
  /\ pc' = "called"
  /\ UNCHANGED <<input, reported>>

NextExpr == CallParseExpression

SpecExpr == InitExpr /\ [][NextExpr]_vars

\* The level order the claims speak of: or < and < equality < comparison <
\* concat < term < factor.
LevelOf(op) ==
  CASE op = "Or" -> 1
    [] op = "And" -> 2
    [] op \in {"Equals", "NotEquals"} -> 3
    [] op \in {"Lower", "LowerEquals", "Greater", "GreaterEquals"} -> 4
    [] op = "Concat" -> 5
    [] op \in {"Plus", "Minus"} -> 6
    [] op \in {"Times", "Div", "Mod"} -> 7

\* The expression of a single operand token.
OperandOf(tok) ==
  IF tok.token.kind = "Identifier"
  THEN [expr |-> "Identifier", identifier |-> tok.token.val, pos |-> tok.pos]
  ELSE [expr |-> "Literal", literal |-> [lit |-> "Int", int |-> tok.token.val], pos |-> tok.pos]

Bin(l, tok, r) ==
  [expr |-> "BinaryOp", left |-> l, op |-> tok.token.val, right |-> r, pos |-> tok.pos]

ParsedChain3 == out.op = "parse_expression" /\ Len(input) = 5

\* C6: precedence follows the level order.  With hi on a strictly higher
\* level than lo, `a lo b hi c` parses as BinaryOp(lo, a, BinaryOp(hi, b, c))
\* and `a hi b lo c` as BinaryOp(lo, BinaryOp(hi, a, b), c).
C6_Precedence ==
  ParsedChain3 =>
    LET a == OperandOf(input[1])
        b == OperandOf(input[3])
        c == OperandOf(input[5])
        l1 == LevelOf(input[2].token.val)
        l2 == LevelOf(input[4].token.val)
    IN
    /\ l1 < l2 =>
         /\ out.res.ok
         /\ out.res.val = Bin(a, input[2], Bin(b, input[4], c))
         /\ Rest(out.res.st) = << >>
    /\ l1 > l2 =>
         /\ out.res.ok
         /\ out.res.val = Bin(Bin(a, input[2], b), input[4], c)
         /\ Rest(out.res.st) = << >>

\* `1 + 1 * a`, parsed.
C6_Witness ==
  /\ ParsedChain3
  /\ out.res.ok
  /\ input[2].token = Op("Plus")
  /\ input[4].token = Op("Times")
  /\ out.res.val.right.expr = "BinaryOp"

\* C7: every level is left-associative.  With op1 and op2 on the same
\* level, `a op1 b op2 c` parses as BinaryOp(op2, BinaryOp(op1, a, b), c),
\* each node carrying the position of its own operator token.
C7_LeftAssociative ==
  (ParsedChain3 /\ LevelOf(input[2].token.val) = LevelOf(input[4].token.val)) =>
    /\ out.res.ok
    /\ out.res.val = Bin(Bin(OperandOf(input[1]), input[2], OperandOf(input[3])),
                         input[4], OperandOf(input[5]))
    /\ out.res.val.pos = input[4].pos
    /\ out.res.val.left.pos = input[2].pos

\* `a - 1 + a`, parsed: two different operators of one level.
C7_Witness ==
  /\ ParsedChain3
  /\ out.res.ok
  /\ input[2].token = Op("Minus")
  /\ input[4].token = Op("Plus")
  /\ out.res.val.left.expr = "BinaryOp"

(***************************************************************************)
(* parse_primary, called on dict literals: @[ k: v, ... ] with up to       *)
(* MaxItems items and an optional trailing comma.                          *)
(***************************************************************************)
DictKeys == {"a", "b", "c"}
DictValues == {Lit("1"), Id("x")}

RECURSIVE DictItems(_)
DictItems(n) ==
  IF n = 0 THEN {<< >>}
  ELSE {(IF is = << >> THEN is ELSE is \o <<K("Comma")>>) \o <<Id(k), K("Colon"), v>> :
          is \in DictItems(n - 1), k \in DictKeys, v \in DictValues}

DictLiterals ==
  {<<K("OpenDict")>> \o is \o tail :
     is \in UNION {DictItems(n) : n \in 0..MaxItems},
     tail \in {<<K("CloseBracket")>>, <<K("Comma"), K("CloseBracket")>>}}

InitDict ==
  /\ input \in {Tokens(ks) : ks \in DictLiterals}
  /\ st = New(input)
  /\ reported = << >>
  /\ pc = "dict"
  /\ out = [op |-> "new"]

CallParsePrimary ==
  /\ pc = "dict"
  /\ LET r == ParsePrimary(st) IN
       /\ out' = [op |-> "parse_primary", pre |-> st, res |-> r]
       /\ st' = r.st
  /\ pc' = "called"
  /\ UNCHANGED <<input, reported>>

NextDict == CallParsePrimary

SpecDict == InitDict /\ [][NextDict]_vars

\* The items written in a dict literal @[ k: v, k: v ... ]: their number,
\* and the key and the value token of the i-th.
WrittenItems == (Len(input) - 1) \div 4
WrittenKey(i) == input[4 * i - 2].token.val
WrittenValue(i) == input[4 * i]
KeyRepeats ==
  \E i, j \in 1..WrittenItems : i < j /\ WrittenKey(i) = WrittenKey(j)

\* C8: a dict literal whose key list repeats an identifier fails with
\* DuplicateKeys at the position of its opening token, and no node stands
\* for it; a literal with distinct keys gives a Dict with exactly one entry
\* per written key, holding the value written for it.
C8_DictKeysUnique ==
  (out.op = "parse_primary" /\ (WrittenItems >= 1 \/ Len(input) = 2)) =>
    IF KeyRepeats
    THEN /\ ~out.res.ok
         /\ out.res.err = [error |-> "DuplicateKeys", pos |-> input[1].pos]
    ELSE /\ out.res.ok
         /\ out.res.val.expr = "Literal"
         /\ out.res.val.pos = input[1].pos
         /\ out.res.val.literal.lit = "Dict"
         /\ DOMAIN out.res.val.literal.dict = {WrittenKey(i) : i \in 1..WrittenItems}
         /\ Cardinality(DOMAIN out.res.val.literal.dict) = WrittenItems
         /\ \A i \in 1..WrittenItems :
              out.res.val.literal.dict[WrittenKey(i)] = OperandOf(WrittenValue(i))

\* @[a: .., a: ..], parsed to the end and refused.
C8_Witness ==
  /\ out.op = "parse_primary"
  /\ WrittenItems = 2
  /\ WrittenKey(1) = WrittenKey(2)
  /\ ~out.res.ok
  /\ Rest(out.res.st) = << >>

(***************************************************************************)
(* parse_statement, called on the two spellings of a named function:       *)
(* `function f(ps) B end` and `let f = function(ps) B end`.  The tokens    *)
(* `(ps) B end` carry the same positions in both; the tokens in front of   *)
(* them carry positions of their own.                                      *)
(***************************************************************************)
ParamNames == {"x", "y"}
BodyKinds == {Kw("Return"), Kw("Break"), Id("a"), Kw("End"), K("OpenParens"), K("CloseParens")}

RECURSIVE CommaList(_)
CommaList(names) ==
  IF names = << >> THEN << >>
  ELSE IF Len(names) = 1 THEN <<Id(names[1])>>
  ELSE <<Id(names[1]), K("Comma")>> \o CommaList(Tail(names))

FunctionTails ==
  {<<K("OpenParens")>> \o CommaList(ps) \o <<K("CloseParens")>> \o body \o <<Kw("End")>> :
     ps \in SeqsUpTo(ParamNames, MaxParams), body \in SeqsUpTo(BodyKinds, MaxBody)}

TailTokens(ks) == [i \in 1..Len(ks) |-> Token(ks[i], 10 + i)]

Sugared(tail) == <<Token(Kw("Function"), 1), Token(Id("f"), 2)>> \o TailTokens(tail)
Explicit(tail) ==
  <<Token(Kw("Let"), 3), Token(Id("f"), 4), Token(Op("Assign"), 5), Token(Kw("Function"), 6)>>
    \o TailTokens(tail)

NotCalled == [called |-> FALSE]

InitSugar ==
  /\ input \in {[sugared |-> Sugared(tail), explicit |-> Explicit(tail)] : tail \in FunctionTails}
  /\ st = New(<< >>)
  /\ reported = << >>
  /\ pc = "sugar"
  /\ out = [sugared |-> NotCalled, explicit |-> NotCalled]

CallParseSugared ==
  /\ pc = "sugar"
  /\ ~out.sugared.called
  /\ out' = [out EXCEPT !.sugared = [called |-> TRUE, res |-> ParseStatement(New(input.sugared))]]
  /\ UNCHANGED <<input, st, reported, pc>>

CallParseExplicit ==
  /\ pc = "sugar"
  /\ ~out.explicit.called
  /\ out' = [out EXCEPT !.explicit = [called |-> TRUE, res |-> ParseStatement(New(input.explicit))]]
  /\ UNCHANGED <<input, st, reported, pc>>

NextSugar == CallParseSugared \/ CallParseExplicit

SpecSugar == InitSugar /\ [][NextSugar]_vars

\* The statement is the whole of the tokens: it parsed and left none.
WholeStatement(r) == r.ok /\ Rest(r.st) = << >>

\* C9: `function f(ps) B end` and `let f = function(ps) B end` parse to Let
\* statements with the same identifier and the same Function literal (same
\* parameters, same body); the Let of the first records the position of the
\* identifier, the Let of the second the position of `let`.
C9_SugarEquivalence ==
  (out.sugared.called /\ out.explicit.called /\ WholeStatement(out.sugared.res)) =>
    LET s == out.sugared.res.val
        e == out.explicit.res.val
    IN
    /\ WholeStatement(out.explicit.res)
    /\ s.stmt = "Let" /\ e.stmt = "Let"
    /\ s.identifier = "f" /\ e.identifier = "f"
    /\ s.init.expr = "Literal" /\ e.init.expr = "Literal"
    /\ s.init.literal.lit = "Function"
    /\ s.init.literal = e.init.literal
    /\ s.pos = input.sugared[2].pos
    /\ e.pos = input.explicit[1].pos

\* function f(x, y) return a end, in both spellings.
C9_Witness ==
  /\ out.sugared.called
  /\ out.explicit.called
  /\ WholeStatement(out.sugared.res)
  /\ out.sugared.res.val.init.literal.args = <<"x", "y">>
  /\ out.sugared.res.val.init.literal.body.stmts # << >>

(***************************************************************************)
(* The lexer: a pull-based scan of the source bytes, one token or one      *)
(* lexical error per step.  A byte of the model is a one-character string, *)
(* "LF" standing for the line feed; the bytes of the model spell no        *)
(* keyword, so every letter run is an identifier.                          *)
(***************************************************************************)
Bytes == {"a", "1", " ", "LF", "#", "=", "+", "$"}

IsLetter(b) == b \in {"a", "_"}
IsDigit(b) == b = "1"
IsBlank(b) == b \in {" ", "LF"}

\* The first index at or after i whose byte does not satisfy the class.
RECURSIVE LetterRunEnd(_, _), DigitRunEnd(_, _), LineEnd(_, _), SkipBlank(_, _)
LetterRunEnd(bs, i) ==
  IF i <= Len(bs) /\ IsLetter(bs[i]) THEN LetterRunEnd(bs, i + 1) ELSE i
DigitRunEnd(bs, i) ==
  IF i <= Len(bs) /\ IsDigit(bs[i]) THEN DigitRunEnd(bs, i + 1) ELSE i
LineEnd(bs, i) ==
  IF i <= Len(bs) /\ bs[i] # "LF" THEN LineEnd(bs, i + 1) ELSE i

\* Skip whitespace and line comments (from # to the end of the line).
SkipBlank(bs, i) ==
  IF i > Len(bs) THEN i
  ELSE IF IsBlank(bs[i]) THEN SkipBlank(bs, i + 1)
  ELSE IF bs[i] = "#" THEN SkipBlank(bs, LineEnd(bs, i + 1))
  ELSE i

LexOk(kind, bs, from, to) ==
  [ok |-> TRUE, kind |-> kind, text |-> SubSeq(bs, from, to - 1), pos |-> from]
LexErr(byte, at) ==
  [ok |-> FALSE, kind |-> "Unexpected", text |-> <<byte>>, pos |-> at]

\* Where the scan resumes after an unexpected byte at index i: the byte is
\* discarded, and that byte only.  The mutant discards the next byte too.
RecoverSkipsTwo(i) == i + 2
Recover(i) == i + 1

\* One step at index i, which holds the first byte of a token or an
\* unexpected byte: the item produced and the index the scan goes on from.
\* Operators are matched longest first: == before =, ++ before +.
Scan(bs, i) ==
  LET b == bs[i]
      two == i < Len(bs) /\ bs[i + 1] = b
  IN
  CASE IsLetter(b) ->
         [item |-> LexOk("Identifier", bs, i, LetterRunEnd(bs, i)), next |-> LetterRunEnd(bs, i)]
    [] IsDigit(b) ->
         [item |-> LexOk("Int", bs, i, DigitRunEnd(bs, i)), next |-> DigitRunEnd(bs, i)]
    [] b \in {"=", "+"} ->
         IF two THEN [item |-> LexOk("Operator", bs, i, i + 2), next |-> i + 2]
         ELSE [item |-> LexOk("Operator", bs, i, i + 1), next |-> i + 1]
    [] OTHER -> [item |-> LexErr(b, i), next |-> Recover(i)]

\* The whole run of the lexer from index i, as the collected items.
RECURSIVE LexFrom(_, _)
LexFrom(bs, i) ==
  LET j == SkipBlank(bs, i) IN
  IF j > Len(bs) THEN << >>
  ELSE <<Scan(bs, j).item>> \o LexFrom(bs, Scan(bs, j).next)

Lex(bs) == LexFrom(bs, 1)

\* The state machine: st is the cursor of the lexer (the index of the next
\* byte), out the items pulled so far.
InitLex ==
  /\ input \in SeqsUpTo(Bytes, MaxBytes)
  /\ st = 1
  /\ reported = << >>
  /\ pc = "lex"
  /\ out = << >>

\* Lexer::next, answering Some(item).
LexNext ==
  /\ pc = "lex"
  /\ SkipBlank(input, st) <= Len(input)
  /\ LET r == Scan(input, SkipBlank(input, st)) IN
       /\ out' = Append(out, r.item)
       /\ st' = r.next
  /\ UNCHANGED <<input, reported, pc>>

\* Lexer::next, answering None: the input is exhausted.
LexEnd ==
  /\ pc = "lex"
  /\ SkipBlank(input, st) > Len(input)
  /\ st' = SkipBlank(input, st)
  /\ pc' = "done"
  /\ UNCHANGED <<input, reported, out>>

NextLex == LexNext \/ LexEnd

SpecLex == InitLex /\ [][NextLex]_vars

\* The bytes no token starts with, and the places of the input where such a
\* byte stands outside a comment.
Unrecognized == {"$"}
InComment(i) ==
  \E h \in 1..(i - 1) : input[h] = "#" /\ \A k \in (h + 1)..(i - 1) : input[k] # "LF"
UnrecognizedAt == {i \in 1..Len(input) : input[i] \in Unrecognized /\ ~InComment(i)}

Remove(bs, i) == SubSeq(bs, 1, i - 1) \o SubSeq(bs, i + 1, Len(bs))
Blanked(bs, i) == [bs EXCEPT ![i] = " "]

RECURSIVE OkItems(_)
OkItems(items) ==
  IF items = << >> THEN << >>
  ELSE (IF Head(items).ok THEN <<Head(items)>> ELSE << >>) \o OkItems(Tail(items))

\* The tokens of a run without their positions.
Kinds(items) == [k \in 1..Len(items) |-> [kind |-> items[k].kind, text |-> items[k].text]]

\* Each unrecognized byte gives exactly one Unexpected(byte) error, at its
\* place in the output.
OneErrorEach ==
  /\ \A i \in UnrecognizedAt :
       /\ Cardinality({k \in 1..Len(out) : out[k].pos = i}) = 1
       /\ \A k \in 1..Len(out) : out[k].pos = i => out[k] = LexErr(input[i], i)
  /\ \A k \in 1..Len(out) : ~out[k].ok => out[k].pos \in UnrecognizedAt
  /\ \A k \in 1..(Len(out) - 1) : out[k].pos < out[k + 1].pos

\* C10 as stated: the scan is never aborted, each unrecognized byte gives
\* exactly one Unexpected(byte) error at its place, and the Ok tokens are
\* those of the input with that byte removed.
C10_ByteRemoved ==
  pc = "done" =>
    /\ st = Len(input) + 1
    /\ OneErrorEach
    /\ \A i \in UnrecognizedAt :
         Kinds(OkItems(out)) = Kinds(OkItems(Lex(Remove(input, i))))

\* C10, amended: the Ok tokens, positions included, are those of the input
\* with that byte replaced by a space.
C10_ByteBlanked ==
  pc = "done" =>
    /\ st = Len(input) + 1
    /\ OneErrorEach
    /\ \A i \in UnrecognizedAt : OkItems(out) = OkItems(Lex(Blanked(input, i)))

\* A scan that met an unexpected byte and produced a token after it.
C10_Witness ==
  /\ pc = "done"
  /\ Len(out) >= 3
  /\ out[1].ok /\ ~out[2].ok /\ out[3].ok

(***************************************************************************)
(* The symbol interner of the lexer: intern(bytes) answers the Symbol of a *)
(* text, resolve(Symbol) the text of a Symbol.  The table is the sequence  *)
(* of the texts interned so far, in the order they were first seen, and a  *)
(* Symbol is the place of its text in the table; 0 is the reserved default *)
(* Symbol, which has no text.                                              *)
(***************************************************************************)
TextBytes == {"a", "b"}
Texts == SeqsUpTo(TextBytes, MaxTextLen)

DefaultSymbol == 0

\* An intern that never looks the text up: every call makes a new Symbol.
InternAlwaysAppend(table, text) ==
  [symbol |-> Len(table) + 1, table |-> Append(table, text)]

Intern(table, text) ==
  IF \E i \in 1..Len(table) : table[i] = text
  THEN [symbol |-> CHOOSE i \in 1..Len(table) : table[i] = text, table |-> table]
  ELSE [symbol |-> Len(table) + 1, table |-> Append(table, text)]

Resolve(table, symbol) ==
  IF symbol \in 1..Len(table) THEN Some(table[symbol]) ELSE None

\* The state machine: st is the table of the interner, out the intern calls
\* made so far, each with the text given and the Symbol answered, and
\* reported the last resolve call with its answer.
InitIntern ==
  /\ input = << >>
  /\ st = << >>
  /\ reported = << >>
  /\ pc = "intern"
  /\ out = << >>

CallIntern ==
  /\ pc = "intern"
  /\ Len(out) < MaxInterns
  /\ \E text \in Texts :
       /\ st' = Intern(st, text).table
       /\ out' = Append(out, [text |-> text, symbol |-> Intern(st, text).symbol])
  /\ UNCHANGED <<input, reported, pc>>

CallResolve ==
  /\ pc = "intern"
  /\ \E symbol \in 0..(Len(st) + 1) :
       reported' = <<[symbol |-> symbol, text |-> Resolve(st, symbol)]>>
  /\ UNCHANGED <<input, st, pc, out>>

NextIntern == CallIntern \/ CallResolve

SpecIntern == InitIntern /\ [][NextIntern]_vars

\* C11: interning is a canonical map.  Two intern calls answered the same
\* Symbol exactly when their texts were equal, every Symbol answered
\* resolves, now and after any later intern call, to the text it was
\* answered for, and no call answers the default Symbol.
C11_CanonicalMap ==
  pc = "intern" =>
    /\ \A i, j \in 1..Len(out) :
         (out[i].symbol = out[j].symbol) <=> (out[i].text = out[j].text)
    /\ \A i \in 1..Len(out) :
         /\ Resolve(st, out[i].symbol) = Some(out[i].text)
         /\ out[i].symbol # DefaultSymbol

\* Three intern calls, the first and the third with the same text and the
\* second with another one, followed by a resolve of the first Symbol.
C11_Witness ==
  /\ pc = "intern"
  /\ Len(out) = 3
  /\ out[1].text = out[3].text
  /\ out[1].text # out[2].text
  /\ out[1].symbol = out[3].symbol
  /\ reported # << >>
  /\ reported[1].symbol = out[1].symbol
  /\ reported[1].text = Some(out[1].text)

(***************************************************************************)
(* parse_block on token sequences over every operator of the lexer, an     *)
(* identifier and the tokens of a command block: the inputs on which the   *)
(* conversions that panic outside their domain can be called.              *)
(***************************************************************************)
Operators == BinaryOps \cup {"Not", "Try", "Assign", "Dot"}

PanicKinds ==
  {Op(o) : o \in Operators} \cup {Id("a"), K("Command"), K("CloseCommand")}

InitPanic ==
  /\ input \in {Tokens(ks) : ks \in SeqsUpTo(PanicKinds, MaxPanicLen)}
  /\ st = New(input)
  /\ reported = << >>
  /\ pc = "block"
  /\ out = [op |-> "new"]

SpecPanic == InitPanic /\ [][NextBlock]_vars

\* C12: no token sequence drives the parser into a panic: parse_block
\* answers Ok or Err, never by unwinding out of a conversion called outside
\* its domain.
C12_NoPanic == out.op = "parse_block" => ~IsPanic(out.res)

\* `a op a` for a binary operator op, parsed: the BinaryOp conversion was
\* called, and answered the operator of the node.
C12_Witness ==
  /\ out.op = "parse_block"
  /\ Len(input) = 3
  /\ input[2].token.kind = "Operator"
  /\ out.res.ok
  /\ Len(out.res.val.stmts) = 1
  /\ out.res.val.stmts[1].stmt = "Expr"
  /\ out.res.val.stmts[1].expr.expr = "BinaryOp"
  /\ out.res.val.stmts[1].expr.op = input[2].token.val

\* `not a` and `- a`, parsed: the UnaryOp conversion was called.
C12_UnaryConverted ==
  /\ out.op = "parse_block"
  /\ Len(input) = 2
  /\ out.res.ok
  /\ Len(out.res.val.stmts) = 1
  /\ out.res.val.stmts[1].stmt = "Expr"
  /\ out.res.val.stmts[1].expr.expr = "UnaryOp"
  /\ out.res.val.stmts[1].expr.op = input[1].token.val

\* A command block, parsed: the kind from_token answered was unwrapped.
C12_CommandUnwrapped ==
  /\ out.op = "parse_block"
  /\ out.res.ok
  /\ Len(out.res.val.stmts) = 1
  /\ out.res.val.stmts[1].stmt = "Expr"
  /\ out.res.val.stmts[1].expr.expr = "CommandBlock"
  /\ out.res.val.stmts[1].expr.kind = input[1].token.kind

(***************************************************************************)
(* Every routine of the parser, called on a freshly constructed parser:    *)
(* the states a routine is called in, inside another routine too, are the  *)
(* states Parser::new makes of the tokens not consumed yet.                *)
(***************************************************************************)
RoutineKinds ==
  {Kw("Let"), Kw("Function"), Kw("Return"), Kw("While"), Kw("Do"), Kw("If"), Kw("Then"),
   Kw("End"), Id("a"), Lit("1"), Op("Plus"), Op("Minus"), Op("Assign"), Op("Dot"),
   K("OpenParens"), K("CloseParens"), K("OpenBracket"), K("Comma")}

RoutineNames ==
  {"expect", "parse_identifier", "parse_block", "parse_statement", "parse_expression",
   "parse_binop", "parse_unop", "parse_postfix", "parse_primary", "parse_function",
   "comma_sep"}

Routine(name, s) ==
  CASE name = "expect" -> Expect(s, Kw("End"))
    [] name = "parse_identifier" -> ParseIdentifier(s)
    [] name = "parse_block" -> ParseBlock(s)
    [] name = "parse_statement" -> ParseStatement(s)
    [] name = "parse_expression" -> ParseExpression(s)
    [] name = "parse_binop" -> ParseBinop(Len(Levels), s)
    [] name = "parse_unop" -> ParseUnop(s)
    [] name = "parse_postfix" -> ParsePostfix(s)
    [] name = "parse_primary" -> ParsePrimary(s)
    [] name = "parse_function" -> ParseFunction(s)
    [] name = "comma_sep" -> CommaSep("expression", s)

InitRoutine ==
  /\ input \in {Tokens(ks) : ks \in SeqsUpTo(RoutineKinds, MaxRoutineLen)}
  /\ st = New(input)
  /\ reported = << >>
  /\ pc = "routine"
  /\ out = [op |-> "new"]

CallRoutine ==
  /\ pc = "routine"
  /\ \E name \in RoutineNames :
       /\ out' = [op |-> name, pre |-> st, res |-> Routine(name, st)]
       /\ st' = Routine(name, st).st
  /\ pc' = "returned"
  /\ UNCHANGED <<input, reported>>

NextRoutine == CallRoutine

SpecRoutine == InitRoutine /\ [][NextRoutine]_vars

\* C13: token conservation.  When a routine returns, with Ok or with Err,
\* the slot and the cursor together hold a suffix of the tokens they held
\* when it was called (tokens are consumed from the front, in order, none
\* dropped or duplicated), and the slot is empty only if the cursor is
\* exhausted.
C13_TokenConservation ==
  pc = "returned" =>
    /\ Rest(out.pre) = input
    /\ IsSuffix(Rest(st), Rest(out.pre))
    /\ st.token = None => st.cursor = << >>

\* A routine that consumed a token, then failed on a later one and left it
\* in the slot with a token behind it.
C13_Witness ==
  /\ pc = "returned"
  /\ ~out.res.ok
  /\ Len(Rest(st)) < Len(input)
  /\ st.token # None
  /\ st.cursor # << >>

(***************************************************************************)
(* The Block Parser::parse returns after it has reported errors.           *)
(***************************************************************************)
\* C14: when parse returns after one or more reported errors, the Block it
\* returns is the Block of the last attempt alone: what parse_block answers
\* on a parser that starts at the tokens the last failing attempt left,
\* with nothing of the earlier attempts in it; and it is a Block of
\* statements, never the IllFormed variant.
C14_ResultAfterErrors ==
  [][(pc = "parse" /\ pc' = "done" /\ reported # << >>) =>
       /\ out' # BlockIllFormed
       /\ out'.block = "Block"
       /\ ParseBlock(New(Rest(st))).ok
       /\ out' = ParseBlock(New(Rest(st))).val
       /\ IsSuffix(Rest(st), input)]_vars

\* `break let let a`, parsed: the first attempt parses `break` and fails on
\* the second `let`, the second attempt returns the Block of `let a` alone.
C14_Witness ==
  /\ pc = "done"
  /\ Len(reported) = 1
  /\ Len(input) = 4
  /\ input[1].token = Kw("Break")
  /\ out.block = "Block"
  /\ Len(out.stmts) = 1
  /\ out.stmts[1].stmt = "Let"
  /\ out.stmts[1].pos = 3

====
